---------------------------- MODULE Spec2Model ----------------------------
(***************************************************************************)
(* A model of easy-bert (robrua/easy-bert): the Bert model handle of       *)
(* easybert/bert.py (construct, scoped session, embed, save, load, the     *)
(* recursive _delete) and the two commands of easybert/__main__.py (embed, *)
(* download) with their environment-variable context managers.             *)
(*                                                                         *)
(* Strings the program parses or formats (hub identifiers, the side file,  *)
(* input text) are sequences of one-character strings.  The file system is *)
(* a tree of nodes: files, directories and symbolic links.  TensorFlow,    *)
(* TensorFlow Hub and the BERT tokenizer are outside the repository: the   *)
(* model keeps of them what the calls in the source rely on.               *)
(***************************************************************************)
EXTENDS Integers, Sequences, FiniteSets, TLC

VARIABLES
    fs,        \* the file system
    handles,   \* the Bert objects the caller holds
    sessions,  \* the TensorFlow sessions that are open
    environ,   \* os.environ
    scope,     \* history: per handle, its most recent __enter__ / __exit__
    origin,    \* history: per handle, where it came from
    saved,     \* history: per path, the handle whose save wrote what is there
    last       \* the operation that ran last, its arguments and its outcome

vars == <<fs, handles, sessions, environ, scope, origin, saved, last>>

(***************************************************************************)
(* Bounds of the model.                                                    *)
(***************************************************************************)
MaxHandles == 1
MaxSequenceLength == 3
HiddenSize == 2
MaxLinkDepth == 3

(***************************************************************************)
(* Text.                                                                   *)
(***************************************************************************)
Whitespace == {" ", "\n"}

RECURSIVE lstrip(_)
lstrip(s) ==
    IF s # <<>> /\ Head(s) \in Whitespace THEN lstrip(Tail(s)) ELSE s

RECURSIVE rstrip(_)
rstrip(s) ==
    IF s # <<>> /\ s[Len(s)] \in Whitespace
    THEN rstrip(SubSeq(s, 1, Len(s) - 1))
    ELSE s

\* str.strip(): leading and trailing whitespace removed.
strip(s) == rstrip(lstrip(s))

\* file.readline(): the text up to and including the first line break.
RECURSIVE readline(_)
readline(s) ==
    IF s = <<>> THEN <<>>
    ELSE IF Head(s) = "\n" THEN <<"\n">>
    ELSE <<Head(s)>> \o readline(Tail(s))

\* "{}\n".format(s)
FormatLine(s) == s \o <<"\n">>

\* Iterating a text file: its lines, each with its line break.
RECURSIVE readlines(_)
readlines(s) ==
    IF s = <<>> THEN <<>>
    ELSE LET l == readline(s)
         IN  <<l>> \o readlines(SubSeq(s, Len(l) + 1, Len(s)))

(***************************************************************************)
(* The file system: a tree.  A directory maps names to nodes; a symbolic   *)
(* link holds the path it points to.  A path is a sequence of names from   *)
(* the root.                                                               *)
(***************************************************************************)
Missing == [kind |-> "none"]
File(data) == [kind |-> "file", data |-> data]
Dir(entries) == [kind |-> "dir", entries |-> entries]
Link(target) == [kind |-> "link", target |-> target]

NoEntries == [n \in {} |-> Missing]
NoPath == <<"?">>

\* The node stored at a path none of whose components is a link.
RECURSIVE GetNode(_, _)
GetNode(node, p) ==
    IF p = <<>> THEN node
    ELSE IF node.kind = "dir" /\ Head(p) \in DOMAIN node.entries
    THEN GetNode(node.entries[Head(p)], Tail(p))
    ELSE Missing

\* The tree with the node at p replaced by new (removed when new is Missing).
RECURSIVE SetNode(_, _, _)
SetNode(node, p, new) ==
    IF p = <<>> THEN new
    ELSE LET n == Head(p)
             entries == IF node.kind = "dir" THEN node.entries ELSE NoEntries
             old == IF n \in DOMAIN entries THEN entries[n] ELSE Missing
             sub == SetNode(old, Tail(p), new)
             keep == IF sub = Missing THEN DOMAIN entries \ {n}
                     ELSE DOMAIN entries \cup {n}
         IN  Dir([m \in keep |-> IF m = n THEN sub ELSE entries[m]])

\* Path resolution as the operating system does it: a link met on the way is
\* followed; the last component is followed only when follow is set.  The
\* result has no link in it, or is NoPath.
RECURSIVE Resolve(_, _, _, _, _)
Resolve(root, done, rest, follow, fuel) ==
    IF rest = <<>> THEN done
    ELSE IF GetNode(root, done).kind # "dir" THEN NoPath
    ELSE LET here == done \o <<Head(rest)>>
             node == GetNode(root, here)
         IN  IF node.kind = "link" /\ (Len(rest) > 1 \/ follow)
             THEN IF fuel = 0 THEN NoPath
                  ELSE LET to == Resolve(root, <<>>, node.target, TRUE, fuel - 1)
                       IN  IF to = NoPath THEN NoPath
                           ELSE Resolve(root, to, Tail(rest), follow, fuel - 1)
             ELSE Resolve(root, here, Tail(rest), follow, fuel)

\* os.stat(path): the node the path leads to, links followed.
Stat(root, p) ==
    LET q == Resolve(root, <<>>, p, TRUE, MaxLinkDepth)
    IN  IF q = NoPath THEN Missing ELSE GetNode(root, q)

\* os.lstat(path): the node the path names, a final link not followed.
LStat(root, p) ==
    LET q == Resolve(root, <<>>, p, FALSE, MaxLinkDepth)
    IN  IF q = NoPath THEN Missing ELSE GetNode(root, q)

exists(root, p) == Stat(root, p).kind # "none"
is_dir(root, p) == Stat(root, p).kind = "dir"

\* Path.iterdir(): the entries of the directory the path leads to, each as
\* the path extended by the entry's name.
iterdir(root, p) == {p \o <<n>> : n \in DOMAIN Stat(root, p).entries}

Ok(root) == [ok |-> TRUE, fs |-> root]
Err(root) == [ok |-> FALSE, fs |-> root]

\* Path.unlink(): removes a file or a link; fails on a directory.
unlink(root, p) ==
    LET q == Resolve(root, <<>>, p, FALSE, MaxLinkDepth)
    IN  IF q = NoPath \/ GetNode(root, q).kind \in {"none", "dir"}
        THEN Err(root)
        ELSE Ok(SetNode(root, q, Missing))

\* Path.rmdir(): removes an empty directory; fails on a link to a directory
\* (ENOTDIR) and on a directory that has entries.
rmdir(root, p) ==
    LET q == Resolve(root, <<>>, p, FALSE, MaxLinkDepth)
    IN  IF q = NoPath \/ GetNode(root, q).kind # "dir"
           \/ DOMAIN GetNode(root, q).entries # {}
        THEN Err(root)
        ELSE Ok(SetNode(root, q, Missing))

\* open(path, "w"): creates or truncates the file and writes data; fails when
\* the parent is no directory or the path is one.
write_file(root, p, data) ==
    LET q == Resolve(root, <<>>, p, TRUE, MaxLinkDepth)
    IN  IF q = NoPath \/ q = <<>> \/ GetNode(root, q).kind = "dir"
           \/ GetNode(root, SubSeq(q, 1, Len(q) - 1)).kind # "dir"
        THEN Err(root)
        ELSE Ok(SetNode(root, q, File(data)))

\* _delete(path): every file system the call can leave, with whether it
\* returned (ok) or raised.  The entries of a directory are visited in the
\* order the operating system lists them, which is any order.
RECURSIVE _delete(_, _)
RECURSIVE DeleteEntries(_, _, _)
DeleteEntries(root, p, todo) ==
    IF todo = {} THEN {rmdir(root, p)}
    ELSE UNION {
           UNION { IF r.ok THEN DeleteEntries(r.fs, p, todo \ {sub}) ELSE {r}
                   : r \in _delete(root, sub) }
           : sub \in todo }

_delete(root, p) ==
    IF ~is_dir(root, p)
    THEN {unlink(root, p)}
    ELSE DeleteEntries(root, p, iterdir(root, p))


(***************************************************************************)
(* What files hold.                                                        *)
(***************************************************************************)
Text(s) == [type |-> "text", text |-> s]
GraphDef(graph, signature) ==
    [type |-> "saved_model", graph |-> graph, signature |-> signature]
Variables(values) == [type |-> "variables", values |-> values]

(***************************************************************************)
(* TensorFlow Hub.  hub.Module(url) resolves an identifier (a URL or a     *)
(* local directory) to a module, or fails.  A module carries a vocabulary  *)
(* and the checkpoint its variables are initialized from.                  *)
(***************************************************************************)
HubIds == {<<"u">>, <<"u", " ">>}
Urls == HubIds \cup {<<"w">>}

ModuleNo(url) ==
    CASE url = <<"u">> -> 1
      [] url = <<"u", " ">> -> 2
      [] OTHER -> 0

hub_Module(url) ==
    IF url \in HubIds
    THEN [ok |-> TRUE, vocab_file |-> ModuleNo(url), checkpoint |-> 100 * ModuleNo(url)]
    ELSE [ok |-> FALSE, vocab_file |-> 0, checkpoint |-> 0]

\* FullTokenizer(vocab_file, do_lower_case)
FullTokenizer(module) == [vocab |-> module.vocab_file]

CharCode(c) == CASE c = "a" -> 1 [] c = "b" -> 2 [] OTHER -> 3

\* tokenizer.tokenize, then convert_tokens_to_ids: one token per character
\* that is not whitespace, numbered by the tokenizer's vocabulary.
RECURSIVE Tokenize(_, _)
Tokenize(tokenizer, text) ==
    IF text = <<>> THEN <<>>
    ELSE IF Head(text) \in Whitespace THEN Tokenize(tokenizer, Tail(text))
    ELSE <<10 * tokenizer.vocab + CharCode(Head(text))>>
         \o Tokenize(tokenizer, Tail(text))

CLS == 1
SEP == 2

\* tokens[0:k], a Python slice: a negative k counts from the end.
PySlice(tokens, k) ==
    LET n == IF k >= 0 THEN k ELSE Len(tokens) + k
    IN  IF n <= 0 THEN <<>>
        ELSE IF n >= Len(tokens) THEN tokens
        ELSE SubSeq(tokens, 1, n)

\* The features of one example; ok is FALSE when the library's assert on
\* their length fails.
Features(ok, input_ids, input_mask, segment_ids) ==
    [ok |-> ok, input_ids |-> input_ids, input_mask |-> input_mask,
     segment_ids |-> segment_ids]

\* convert_example with the truncation left out.
convert_example_untruncated(text, max_seq_length, tokenizer) ==
    LET ids == <<CLS>> \o Tokenize(tokenizer, text) \o <<SEP>>
        zeros == [i \in 1..(max_seq_length - Len(ids)) |-> 0]
    IN  Features(Len(ids) <= max_seq_length, ids \o zeros,
                 [i \in 1..Len(ids) |-> 1] \o zeros,
                 [i \in 1..Len(ids) |-> 0] \o zeros)

\* run_classifier.convert_examples_to_features for one example with no
\* second text: truncate to max_seq_length - 2 tokens, add [CLS] and [SEP],
\* mask 1 on these, pad all three with zeros while they are shorter than
\* max_seq_length, then assert that their length is max_seq_length.
convert_example(text, max_seq_length, tokenizer) ==
    LET all == Tokenize(tokenizer, text)
        tokens_a == IF Len(all) > max_seq_length - 2
                    THEN PySlice(all, max_seq_length - 2)
                    ELSE all
        ids == <<CLS>> \o tokens_a \o <<SEP>>
        zeros == [i \in 1..(max_seq_length - Len(ids)) |-> 0]
    IN  Features(Len(ids) + Len(zeros) = max_seq_length,
                 ids \o zeros,
                 [i \in 1..Len(ids) |-> 1] \o zeros,
                 [i \in 1..Len(ids) |-> 0] \o zeros)

(***************************************************************************)
(* numpy arrays: a shape and the elements in row-major order.              *)
(***************************************************************************)
RECURSIVE Product(_)
Product(shape) == IF shape = <<>> THEN 1 ELSE Head(shape) * Product(Tail(shape))

RECURSIVE Flatten(_)
Flatten(rows) == IF rows = <<>> THEN <<>> ELSE Head(rows) \o Flatten(Tail(rows))

Array(shape, data) == [ok |-> TRUE, shape |-> shape, data |-> data]
NoArray == [ok |-> FALSE, shape |-> <<>>, data |-> <<>>]

\* ndarray.reshape(shape): the same elements under another shape; fails
\* when the sizes differ.
reshape(a, shape) ==
    IF a.ok /\ Product(shape) = Len(a.data) THEN Array(shape, a.data) ELSE NoArray

\* a[i]: the i-th entry along the first dimension.
Row(a, i) ==
    LET n == Product(Tail(a.shape))
    IN  Array(Tail(a.shape), SubSeq(a.data, (i - 1) * n + 1, i * n))

(***************************************************************************)
(* The computation graph and its sessions.  A graph holds the module it    *)
(* was built from and the width of its three placeholders.  A session      *)
(* holds the graph's variables, uninitialized until the initializer runs.  *)
(***************************************************************************)
Uninitialized == -1

Graph(module, max_sequence_length) ==
    [checkpoint |-> module.checkpoint, max_sequence_length |-> max_sequence_length]

\* tf.Graph(): a graph with nothing in it.
tf_Graph == [checkpoint |-> Uninitialized, max_sequence_length |-> 0]

Placeholders == {"input_ids", "input_mask", "segment_ids"}

\* tf.global_variables_initializer(): the module's variables are initialized
\* from the module's checkpoint.
global_variables_initializer(graph) == graph.checkpoint

RECURSIVE Sum(_)
Sum(s) == IF s = <<>> THEN 0 ELSE Head(s) + Sum(Tail(s))

\* One row of the model's two outputs.
PooledRow(w, ids, mask, segs) ==
    LET ctx == Sum([t \in 1..Len(ids) |-> t * ids[t] * mask[t] + segs[t]])
    IN  [j \in 1..HiddenSize |-> w + j * ctx]

SequenceRow(w, ids, mask, segs) ==
    LET ctx == Sum([t \in 1..Len(ids) |-> t * ids[t] * mask[t] + segs[t]])
    IN  Flatten([t \in 1..Len(ids) |->
                   [j \in 1..HiddenSize |-> w + ctx + j * (ids[t] + t)]])

\* session.run(fetch, feed_dict): fails on uninitialized variables, on a
\* placeholder that is not fed and on a row of the wrong width.
session_run(graph, values, fetch, feed) ==
    IF values = Uninitialized \/ ~(Placeholders \subseteq DOMAIN feed)
       \/ \E t \in DOMAIN feed : feed[t] = <<>>
    THEN NoArray
    ELSE LET ids == feed["input_ids"]
             mask == feed["input_mask"]
             segs == feed["segment_ids"]
             n == Len(ids)
             L == graph.max_sequence_length
         IN  IF \E t \in DOMAIN feed : \E i \in 1..Len(feed[t]) : Len(feed[t][i]) # L
             THEN NoArray
             ELSE IF fetch = "pooled_output"
             THEN Array(<<n, HiddenSize>>,
                        Flatten([i \in 1..n |-> PooledRow(values, ids[i], mask[i], segs[i])]))
             ELSE IF fetch = "sequence_output"
             THEN Array(<<n, L, HiddenSize>>,
                        Flatten([i \in 1..n |-> SequenceRow(values, ids[i], mask[i], segs[i])]))
             ELSE NoArray

\* tf.Session(graph=...): a new session, its variables uninitialized.
NewSessionId(sess) ==
    CHOOSE i \in 1..(Cardinality(sess) + 1) : \A s \in sess : s.id # i

tf_Session(sess, owner, graph) ==
    sess \cup {[id |-> NewSessionId(sess), owner |-> owner, graph |-> graph,
                values |-> Uninitialized]}

TheSession(sess, id) == CHOOSE s \in sess : s.id = id

\* session.run(tf.global_variables_initializer())
run_initializer(sess, id) ==
    {IF s.id = id
     THEN [s EXCEPT !.values = global_variables_initializer(s.graph)]
     ELSE s : s \in sess}

\* Session.__exit__ / close()
close_session(sess, id) == {s \in sess : s.id # id}


(***************************************************************************)
(* The Bert object.                                                        *)
(***************************************************************************)
_SOURCE_MODEL_ASSET_FILE == "source-model.txt"

NoHandle == [kind |-> "none"]
\* An attribute the object does not have: reading it raises AttributeError.
NoAttr == <<"AttributeError">>

IsBert(hd) == hd.kind = "bert"

Result(error, value, sess) == [error |-> error, value |-> value, sessions |-> sess]

\* Bert.__init__(tf_hub_url, max_sequence_length)
Bert(sess, owner, tf_hub_url, max_sequence_length) ==
    LET module == hub_Module(tf_hub_url)
        graph == Graph(module, max_sequence_length)
        id == NewSessionId(sess)
        opened == tf_Session(sess, owner, graph)
        closed == close_session(opened, id)
    IN  IF ~module.ok THEN Result("HubError", NoHandle, closed)
        ELSE Result("", [kind |-> "bert",
                         source_model |-> tf_hub_url,
                         graph |-> graph,
                         session |-> 0,
                         tokenizer |-> FullTokenizer(module),
                         input_ids |-> "input_ids",
                         input_mask |-> "input_mask",
                         segment_ids |-> "segment_ids",
                         outputs |-> [pooled_output |-> "pooled_output",
                                      sequence_output |-> "sequence_output"]],
                    closed)

\* __enter__ without the run of the initializer.
__enter__uninitialized(sess, owner, hd) ==
    IF hd.session = 0
    THEN [handle |-> [hd EXCEPT !.session = NewSessionId(sess)],
          sessions |-> tf_Session(sess, owner, hd.graph)]
    ELSE [handle |-> hd, sessions |-> sess]

\* Bert.__enter__: [handle, sessions] after the call.
__enter__(sess, owner, hd) ==
    IF hd.session = 0
    THEN LET id == NewSessionId(sess)
         IN  [handle |-> [hd EXCEPT !.session = id],
              sessions |-> run_initializer(tf_Session(sess, owner, hd.graph), id)]
    ELSE [handle |-> hd, sessions |-> sess]

\* Bert.__exit__
__exit__(sess, hd) ==
    IF hd.session # 0
    THEN [handle |-> [hd EXCEPT !.session = 0],
          sessions |-> close_session(sess, hd.session)]
    ELSE [handle |-> hd, sessions |-> sess]

\* The session embed and save compute in: the handle's own when it has one,
\* otherwise a temporary one that is initialized, used and closed.
AcquireSession(sess, owner, hd) ==
    IF hd.session # 0
    THEN [id |-> hd.session, sessions |-> sess]
    ELSE LET id == NewSessionId(sess)
         IN  [id |-> id,
              sessions |-> run_initializer(tf_Session(sess, owner, hd.graph), id)]

\* The temporary session left open.
ReleaseSession_leak(sess, hd, id) == sess

ReleaseSession(sess, hd, id) ==
    IF hd.session # 0 THEN sess ELSE close_session(sess, id)

\* Python values for embed's argument: a str or a list of str.
Str(text) == [type |-> "str", value |-> text]
List(items) == [type |-> "list", value |-> items]

\* Without the isinstance test a string is iterated character by character.
as_sequences_chars(sequences) ==
    IF sequences.type = "str"
    THEN [i \in 1..Len(sequences.value) |-> <<sequences.value[i]>>]
    ELSE sequences.value

\* embed, lines 121-123: a single string becomes a one-element list.
as_sequences(sequences) ==
    IF sequences.type = "str" THEN <<sequences.value>> ELSE sequences.value

\* embed, lines 146-147: a single string's result loses its first dimension.
drop_batch(single_input, output) ==
    IF single_input /\ output.ok THEN reshape(output, Tail(output.shape)) ELSE output

\* What embed did: its exception or its value, the sessions after it and the
\* feed_dict it ran the graph on (none when it raised before the run).
NoFeed == <<>>
EmbedOutcome(error, value, sess, feed) ==
    [error |-> error, value |-> value, sessions |-> sess, feed |-> feed]

\* Bert.embed(sequences, per_token)
embed(sess, owner, hd, sequences, per_token) ==
    LET single_input == sequences.type = "str"
        seqs == as_sequences(sequences)
        input_features ==
            [i \in 1..Len(seqs) |->
                convert_example(seqs[i], hd.graph.max_sequence_length, hd.tokenizer)]
        fetch == IF per_token THEN hd.outputs.sequence_output
                 ELSE hd.outputs.pooled_output
        ids == [i \in 1..Len(seqs) |-> input_features[i].input_ids]
        mask == [i \in 1..Len(seqs) |-> input_features[i].input_mask]
        segs == [i \in 1..Len(seqs) |-> input_features[i].segment_ids]
        \* a dict literal: a later entry of the same key replaces an earlier.
        feed_dict == [t \in {hd.input_ids, hd.input_mask, hd.segment_ids} |->
                        IF t = hd.segment_ids THEN segs
                        ELSE IF t = hd.input_mask THEN mask
                        ELSE ids]
        acq == AcquireSession(sess, owner, hd)
        s == TheSession(acq.sessions, acq.id)
        output == session_run(s.graph, s.values, fetch, feed_dict)
        after == ReleaseSession(acq.sessions, hd, acq.id)
    IN  IF \E i \in 1..Len(seqs) : ~input_features[i].ok
        THEN EmbedOutcome("AssertionError", NoArray, sess, NoFeed)
        ELSE IF ~output.ok THEN EmbedOutcome("RunError", NoArray, after, feed_dict)
        ELSE EmbedOutcome("", drop_batch(single_input, output), after, feed_dict)

\* tf.saved_model.simple_save(session, path, inputs, outputs): refuses an
\* existing path; writes the graph with its signature, the variables'
\* values and the graph's asset files (the module's vocabulary).
simple_save(root, s, path, inputs, outputs) ==
    IF LStat(root, path).kind # "none" \/ s.values = Uninitialized
    THEN Err(root)
    ELSE Ok(SetNode(root, Resolve(root, <<>>, path, TRUE, MaxLinkDepth),
           Dir([n \in {"saved_model.pb", "variables", "assets"} |->
                 CASE n = "saved_model.pb" ->
                        File(GraphDef(s.graph, [inputs |-> inputs, outputs |-> outputs]))
                   [] n = "variables" ->
                        Dir([v \in {"variables.data"} |-> File(Variables(s.values))])
                   [] OTHER ->
                        Dir([v \in {"vocab.txt"} |-> File(Text(<<>>))])])))

SaveResult(error, root, sess) == [error |-> error, fs |-> root, sessions |-> sess]

\* save, lines 166-184: the bundle, then the side file.
WriteModel(root, sess, owner, hd, path) ==
    LET acq == AcquireSession(sess, owner, hd)
        b == simple_save(root, TheSession(acq.sessions, acq.id), path,
                         [input_ids |-> hd.input_ids,
                          input_mask |-> hd.input_mask,
                          segment_ids |-> hd.segment_ids],
                         hd.outputs)
        after == ReleaseSession(acq.sessions, hd, acq.id)
        side == path \o <<"assets", _SOURCE_MODEL_ASSET_FILE>>
        opened == write_file(b.fs, side, Text(<<>>))
    IN  IF ~b.ok THEN SaveResult("SaveError", b.fs, after)
        ELSE IF ~opened.ok THEN SaveResult("OSError", opened.fs, after)
        ELSE IF hd.source_model = NoAttr
        THEN SaveResult("AttributeError", opened.fs, after)
        ELSE SaveResult("", write_file(opened.fs, side,
                                        Text(FormatLine(hd.source_model))).fs, after)

\* save with the test of overwrite left out: an existing path is deleted.
save_unchecked(root, sess, owner, hd, path, overwrite) ==
    IF exists(root, path)
    THEN {IF d.ok THEN WriteModel(d.fs, sess, owner, hd, path)
          ELSE SaveResult("OSError", d.fs, sess) : d \in _delete(root, path)}
    ELSE {WriteModel(root, sess, owner, hd, path)}

\* Bert.save(path, overwrite): every outcome the call can have.
save(root, sess, owner, hd, path, overwrite) ==
    IF exists(root, path)
    THEN IF ~overwrite
         THEN {SaveResult("ValueError", root, sess)}
         ELSE {IF d.ok THEN WriteModel(d.fs, sess, owner, hd, path)
               ELSE SaveResult("OSError", d.fs, sess) : d \in _delete(root, path)}
    ELSE {WriteModel(root, sess, owner, hd, path)}

IsFileOf(node, type) == node.kind = "file" /\ node.data.type = type

\* Bert.load(path)
load(root, sess0, owner, path) ==
    LET pb == Stat(root, path \o <<"saved_model.pb">>)
        data == Stat(root, path \o <<"variables", "variables.data">>)
        side == Stat(root, path \o <<"assets", _SOURCE_MODEL_ASSET_FILE>>)
        \* both sessions of load are closed when their with block is left
        sess == close_session(tf_Session(sess0, owner, tf_Graph), NewSessionId(sess0))
    IN  IF ~IsFileOf(pb, "saved_model") \/ ~IsFileOf(data, "variables")
        THEN Result("LoadError", NoHandle, sess)
        ELSE IF ~IsFileOf(side, "text")
        THEN Result("OSError", NoHandle, sess)
        ELSE LET tf_hub_url == strip(readline(side.data.text))
                 module == hub_Module(tf_hub_url)
                 signature == pb.data.signature
             IN  IF ~module.ok THEN Result("HubError", NoHandle, sess)
                 ELSE Result("", [kind |-> "bert",
                                  source_model |-> NoAttr,
                                  graph |-> pb.data.graph,
                                  session |-> 0,
                                  tokenizer |-> FullTokenizer(module),
                                  input_ids |-> signature.inputs.input_ids,
                                  input_mask |-> signature.inputs.input_mask,
                                  segment_ids |-> signature.inputs.segment_ids,
                                  outputs |->
                                    [pooled_output |-> signature.outputs.pooled_output,
                                     sequence_output |-> signature.outputs.sequence_output]],
                             sess)


(***************************************************************************)
(* The command line, easybert/__main__.py.                                 *)
(***************************************************************************)
\* A variable os.environ does not hold; also Python's None for a saved value.
Unset == "<unset>"

\* Python truthiness of a saved value: None and "" are false.
Truthy(v) == v \notin {Unset, ""}

\* _gpu(gpu) up to its yield: [environ, saved]
_gpu_enter(env, gpu) ==
    IF gpu THEN [environ |-> env, saved |-> Unset]
    ELSE [environ |-> [env EXCEPT !.CUDA_VISIBLE_DEVICES = "-1"],
          saved |-> env.CUDA_VISIBLE_DEVICES]

\* _gpu(gpu) after its yield, run when the body returns normally.
_gpu_exit(env, gpu, visible_devices) ==
    IF gpu THEN env
    ELSE IF Truthy(visible_devices)
    THEN [env EXCEPT !.CUDA_VISIBLE_DEVICES = visible_devices]
    ELSE [env EXCEPT !.CUDA_VISIBLE_DEVICES = Unset]

\* _errors_only(activate) up to its yield.
_errors_only_enter(env, activate) ==
    IF ~activate THEN [environ |-> env, saved |-> Unset]
    ELSE [environ |-> [env EXCEPT !.TF_CPP_MIN_LOG_LEVEL = "2"],
          saved |-> env.TF_CPP_MIN_LOG_LEVEL]

\* _errors_only(activate) after its yield.
_errors_only_exit(env, activate, log_level) ==
    IF ~activate THEN env
    ELSE IF Truthy(log_level)
    THEN [env EXCEPT !.TF_CPP_MIN_LOG_LEVEL = log_level]
    ELSE [env EXCEPT !.TF_CPP_MIN_LOG_LEVEL = Unset]

\* with _errors_only(not verbose), _gpu(gpu): <body>.  Neither generator
\* has a try/finally around its yield: when the body raises, the exception
\* is thrown into the generator at the yield and the lines after it do not
\* run.
WithOverrides(env, gpu, verbose, body_ok) ==
    LET outer == _errors_only_enter(env, ~verbose)
        inner == _gpu_enter(outer.environ, gpu)
    IN  IF body_ok
        THEN _errors_only_exit(_gpu_exit(inner.environ, gpu, inner.saved),
                               ~verbose, outer.saved)
        ELSE inner.environ

\* A command-line option: given with a value, or left out (None).
Opt(v) == [given |-> TRUE, value |-> v]
NoOpt == [given |-> FALSE, value |-> <<>>]

\* The check with its second test left out.
CheckInputs_missing_only(sequence, input) ==
    IF ~sequence.given /\ ~input.given THEN "Error: Missing option" ELSE ""

\* _embed, lines 97-102: the check of the two sources of text.
CheckInputs(sequence, input) ==
    IF ~sequence.given /\ ~input.given THEN "Error: Missing option"
    ELSE IF sequence.given /\ input.given THEN "Error: Redundant options"
    ELSE ""

\* _embed, lines 105-110: the sequences to embed.
GetSequences(root, sequence, input) ==
    IF sequence.given THEN [ok |-> TRUE, sequences |-> Str(sequence.value)]
    ELSE LET node == Stat(root, input.value)
         IN  IF ~IsFileOf(node, "text") THEN [ok |-> FALSE, sequences |-> List(<<>>)]
             ELSE LET lines == readlines(node.data.text)
                  IN  [ok |-> TRUE,
                       sequences |-> List([i \in 1..Len(lines) |-> strip(lines[i])])]

\* _embed, lines 113-126: the body of the with statement.
EmbedBody(root, sequences, output, model, tokens, hub_model, max_sequence_length) ==
    LET made == IF model.given THEN load(root, {}, 0, model.value)
                ELSE Bert({}, 0, hub_model, max_sequence_length)
        got == embed({}, 0, made.value, sequences, tokens)
        written == write_file(root, output.value, [type |-> "npy", array |-> got.value])
    IN  IF made.error # "" THEN [error |-> made.error, loaded |-> FALSE, fs |-> root]
        ELSE IF got.error # "" THEN [error |-> got.error, loaded |-> TRUE, fs |-> root]
        ELSE IF ~output.given THEN [error |-> "", loaded |-> TRUE, fs |-> root]
        ELSE IF ~written.ok THEN [error |-> "OSError", loaded |-> TRUE, fs |-> root]
        ELSE [error |-> "", loaded |-> TRUE, fs |-> written.fs]

EmbedResult(sequence, input, gpu, verbose, stage, status, printed, error) ==
    [op |-> "_embed", sequence |-> sequence, input |-> input, gpu |-> gpu,
     verbose |-> verbose, stage |-> stage, status |-> status, printed |-> printed,
     error |-> error]

\* bert embed ...: the checks, the reading of the input and the body.  exit(1)
\* and an exception that nothing catches both end the process with status 1.
_embed(sequence, input, output, model, tokens, hub_model, max_sequence_length, gpu, verbose) ==
    LET message == CheckInputs(sequence, input)
        seqs == GetSequences(fs, sequence, input)
        body == EmbedBody(fs, seqs.sequences, output, model, tokens, hub_model,
                          max_sequence_length)
    IN  /\ IF message # ""
           THEN /\ last' = EmbedResult(sequence, input, gpu, verbose, "check",
                                       1, message, "SystemExit")
                /\ UNCHANGED <<fs, environ>>
           ELSE IF ~seqs.ok
           THEN /\ last' = EmbedResult(sequence, input, gpu, verbose, "read",
                                       1, "", "OSError")
                /\ UNCHANGED <<fs, environ>>
           ELSE /\ last' = EmbedResult(sequence, input, gpu, verbose, "body",
                                       IF body.error = "" THEN 0 ELSE 1, "", body.error)
                /\ fs' = body.fs
                /\ environ' = WithOverrides(environ, gpu, verbose, body.error = "")
        /\ UNCHANGED <<handles, sessions, scope, origin, saved>>

DownloadResult(path, overwrite, existed, gpu, verbose, status, error) ==
    [op |-> "_download", path |-> path, overwrite |-> overwrite, existed |-> existed,
     gpu |-> gpu, verbose |-> verbose, status |-> status, error |-> error]

\* bert download ...
_download(model, hub_model, max_sequence_length, overwrite, gpu, verbose) ==
    LET made == Bert({}, 0, hub_model, max_sequence_length)
    IN  /\ IF made.error # ""
           THEN /\ last' = DownloadResult(model, overwrite, exists(fs, model), gpu, verbose,
                                          1, made.error)
                /\ environ' = WithOverrides(environ, gpu, verbose, FALSE)
                /\ UNCHANGED <<fs, saved>>
           ELSE \E r \in save(fs, {}, 0, made.value, model, overwrite) :
                /\ last' = DownloadResult(model, overwrite, exists(fs, model), gpu, verbose,
                                          IF r.error = "" THEN 0 ELSE 1, r.error)
                /\ environ' = WithOverrides(environ, gpu, verbose, r.error = "")
                /\ fs' = r.fs
                /\ saved' = [saved EXCEPT ![model] =
                               IF r.error = ""
                               THEN [known |-> TRUE, loaded |-> FALSE,
                                     line |-> FormatLine(hub_model), handle |-> made.value]
                               ELSE IF r.fs = fs THEN saved[model]
                               ELSE [known |-> FALSE, loaded |-> FALSE, line |-> <<>>,
                                     handle |-> NoHandle]]
        /\ UNCHANGED <<handles, sessions, scope, origin>>


(***************************************************************************)
(* The library's operations, called on the handles the caller holds.  The  *)
(* history variables record what the claims speak of and the program does  *)
(* not keep; no operation's outcome depends on them.                       *)
(***************************************************************************)
Slots == 1..MaxHandles
\* A new object takes the first name the caller has free.
IsFree(h) == handles[h] = NoHandle /\ \A g \in 1..(h - 1) : handles[g] # NoHandle

NoOrigin == [known |-> FALSE, loaded |-> FALSE, line |-> <<>>, handle |-> NoHandle]
Origin(loaded, line, handle) ==
    [known |-> TRUE, loaded |-> loaded, line |-> line, handle |-> handle]

LibResult(op, h, error, arg, flag, value) ==
    [op |-> op, h |-> h, error |-> error, arg |-> arg, flag |-> flag, value |-> value]

\* What the last call of embed did, with the feed_dict it ran the graph on.
EmbedCall(h, error, arg, flag, value, feed) ==
    [op |-> "embed", h |-> h, error |-> error, arg |-> arg, flag |-> flag,
     value |-> value, feed |-> feed]

\* h = Bert(tf_hub_url, max_sequence_length)
Construct(h, tf_hub_url, max_sequence_length) ==
    LET r == Bert(sessions, h, tf_hub_url, max_sequence_length)
    IN  /\ IsFree(h)
        /\ handles' = [handles EXCEPT ![h] = r.value]
        /\ sessions' = r.sessions
        /\ origin' = [origin EXCEPT ![h] =
                        IF r.error = "" THEN Origin(FALSE, FormatLine(tf_hub_url), NoHandle)
                        ELSE NoOrigin]
        /\ last' = LibResult("Bert", h, r.error, tf_hub_url, FALSE, NoArray)
        /\ UNCHANGED <<fs, environ, scope, saved>>

\* h = Bert.load(path)
Load(h, path) ==
    LET r == load(fs, sessions, h, path)
    IN  /\ IsFree(h)
        /\ handles' = [handles EXCEPT ![h] = r.value]
        /\ sessions' = r.sessions
        /\ origin' = [origin EXCEPT ![h] =
                        IF r.error = "" /\ saved[path].known
                        THEN Origin(TRUE, saved[path].line, saved[path].handle)
                        ELSE NoOrigin]
        /\ last' = LibResult("load", h, r.error, path, FALSE, NoArray)
        /\ UNCHANGED <<fs, environ, scope, saved>>

\* with h: (entry)
Enter(h) ==
    LET r == __enter__(sessions, h, handles[h])
    IN  /\ IsBert(handles[h])
        /\ handles' = [handles EXCEPT ![h] = r.handle]
        /\ sessions' = r.sessions
        /\ scope' = [scope EXCEPT ![h] = "entered"]
        /\ last' = LibResult("__enter__", h, "", <<>>, handles[h].session # 0, NoArray)
        /\ UNCHANGED <<fs, environ, origin, saved>>

\* with h: (exit)
Exit(h) ==
    LET r == __exit__(sessions, handles[h])
    IN  /\ IsBert(handles[h])
        /\ handles' = [handles EXCEPT ![h] = r.handle]
        /\ sessions' = r.sessions
        /\ scope' = [scope EXCEPT ![h] = "exited"]
        /\ last' = LibResult("__exit__", h, "", <<>>, FALSE, NoArray)
        /\ UNCHANGED <<fs, environ, origin, saved>>

\* h.embed(sequences, per_token)
Embed(h, sequences, per_token) ==
    LET r == embed(sessions, h, handles[h], sequences, per_token)
    IN  /\ IsBert(handles[h])
        /\ sessions' = r.sessions
        /\ last' = EmbedCall(h, r.error, sequences, per_token, r.value, r.feed)
        /\ UNCHANGED <<fs, handles, environ, scope, origin, saved>>

\* h.save(path, overwrite)
Save(h, path, overwrite) ==
    /\ IsBert(handles[h])
    /\ \E r \in save(fs, sessions, h, handles[h], path, overwrite) :
         /\ fs' = r.fs
         /\ sessions' = r.sessions
         /\ saved' = [saved EXCEPT ![path] =
                        IF r.error = ""
                        THEN Origin(origin[h].loaded, origin[h].line,
                                    [handles[h] EXCEPT !.session = 0])
                        ELSE IF r.fs = fs THEN saved[path]
                        ELSE NoOrigin]
         /\ last' = LibResult("save", h, r.error, path, overwrite, NoArray)
    /\ UNCHANGED <<handles, environ, scope, origin>>

\* del h: the caller lets go of a handle that is not inside a with block.
Discard(h) ==
    /\ IsBert(handles[h])
    /\ handles[h].session = 0
    /\ handles' = [handles EXCEPT ![h] = NoHandle]
    /\ scope' = [scope EXCEPT ![h] = "none"]
    /\ origin' = [origin EXCEPT ![h] = NoOrigin]
    /\ last' = LibResult("del", h, "", <<>>, FALSE, NoArray)
    /\ UNCHANGED <<fs, sessions, environ, saved>>

(***************************************************************************)
(* Inputs and initial states.                                              *)
(***************************************************************************)
MaxTextLen == 2
MaxBatch == 2

Alphabet == {"a", "b"}
Texts == UNION {[1..n -> Alphabet] : n \in 0..MaxTextLen}
\* The texts collections are made of: an empty one, one of one token and one
\* that is truncated.
BatchTexts == {<<>>, <<"a">>, <<"b", "a">>}
Batches == UNION {[1..n -> BatchTexts] : n \in 1..MaxBatch}
EmbedInputs == {Str(t) : t \in Texts} \cup {List(b) : b \in Batches}
\* Two inputs for the specifications that are not about embedding.
ProbeInputs == {Str(<<"a", "b">>), List(<<<<"a">>, <<>>>>)}

ModelPath == <<"m">>
SavePaths == {ModelPath, <<"n">>}

\* What may lie outside the model directory, and the text file the embed
\* command reads.
Outside == Dir([n \in {"y"} |-> File(Text(<<"o">>))])
InputFile == File(Text(<<"a", "\n", " ", "b", "\n">>))

\* What may be at the path a model is saved to.
OldFile == File(Text(<<"o">>))
ExistingAtPath ==
    { Missing,
      OldFile,
      Dir(NoEntries),
      Dir([n \in {"x"} |-> OldFile]),
      Dir([n \in {"x", "k"} |->
            IF n = "k" THEN OldFile
            ELSE Dir([y \in {"y"} |-> Dir([z \in {"z"} |-> OldFile])])]),
      Dir([n \in {"x"} |-> Link(<<"out">>)]) }

Root(at_m) ==
    SetNode(Dir([n \in {"out", "in.txt"} |-> IF n = "out" THEN Outside ELSE InputFile]),
            ModelPath, at_m)

NoEnviron == [CUDA_VISIBLE_DEVICES |-> Unset, TF_CPP_MIN_LOG_LEVEL |-> Unset]
Environs == [CUDA_VISIBLE_DEVICES : {Unset, "", "0"}, TF_CPP_MIN_LOG_LEVEL : {Unset, "", "1"}]

InitWith(roots, environs) ==
    /\ fs \in roots
    /\ handles = [h \in Slots |-> NoHandle]
    /\ sessions = {}
    /\ environ \in environs
    /\ scope = [h \in Slots |-> "none"]
    /\ origin = [h \in Slots |-> NoOrigin]
    /\ saved = [p \in SavePaths |-> NoOrigin]
    /\ last = LibResult("init", 0, "", <<>>, FALSE, NoArray)

(***************************************************************************)
(* Spec: the library's handle life cycle, on two paths that start empty.   *)
(***************************************************************************)
Init == InitWith({Root(Missing)}, {NoEnviron})

Next ==
    \/ \E h \in Slots, url \in Urls : Construct(h, url, MaxSequenceLength)
    \/ \E h \in Slots, p \in SavePaths : Load(h, p)
    \/ \E h \in Slots : Enter(h)
    \/ \E h \in Slots : Exit(h)
    \/ \E h \in Slots, x \in ProbeInputs, per_token \in BOOLEAN : Embed(h, x, per_token)
    \/ \E h \in Slots, p \in SavePaths, overwrite \in BOOLEAN : Save(h, p, overwrite)
    \/ \E h \in Slots : Discard(h)

Spec == Init /\ [][Next]_vars

(***************************************************************************)
(* SpecFiles: saving onto whatever is at the model path, from the library  *)
(* and from the download command.                                          *)
(***************************************************************************)
InitFiles == InitWith({Root(d) : d \in ExistingAtPath}, {NoEnviron})

NextFiles ==
    \/ \E h \in Slots, url \in {<<"u">>, <<"w">>} : Construct(h, url, MaxSequenceLength)
    \/ \E h \in Slots : Enter(h)
    \/ \E h \in Slots : Exit(h)
    \/ \E h \in Slots, overwrite \in BOOLEAN : Save(h, ModelPath, overwrite)
    \/ \E url \in {<<"u">>, <<"w">>}, overwrite \in BOOLEAN, gpu \in BOOLEAN, verbose \in BOOLEAN :
         _download(ModelPath, url, MaxSequenceLength, overwrite, gpu, verbose)

SpecFiles == InitFiles /\ [][NextFiles]_vars

(***************************************************************************)
(* SpecEmbed: embedding every input through constructed and reloaded       *)
(* handles, inside and outside a scoped session.                           *)
(***************************************************************************)
NextEmbed ==
    \/ \E h \in Slots : Construct(h, <<"u">>, MaxSequenceLength)
    \/ \E h \in Slots : Load(h, ModelPath)
    \/ \E h \in Slots : Enter(h)
    \/ \E h \in Slots : Exit(h)
    \/ \E h \in Slots, x \in EmbedInputs, per_token \in BOOLEAN : Embed(h, x, per_token)
    \/ \E h \in Slots : Save(h, ModelPath, TRUE)
    \/ \E h \in Slots : Discard(h)

SpecEmbed == Init /\ [][NextEmbed]_vars

(***************************************************************************)
(* SpecCli: the two commands, run one after another in an environment      *)
(* whose two variables are unset, empty or set.                            *)
(***************************************************************************)
InitCli == InitWith({Root(Missing)}, Environs)

CliSequences == {NoOpt, Opt(<<"a">>)}
CliInputs == {NoOpt, Opt(<<"in.txt">>), Opt(<<"none.txt">>)}
CliOutputs == {NoOpt, Opt(<<"e.npy">>)}
CliModels == {NoOpt, Opt(ModelPath)}

NextCli ==
    \/ \E sequence \in CliSequences, input \in CliInputs, output \in CliOutputs,
          model \in CliModels, gpu \in BOOLEAN, verbose \in BOOLEAN :
         _embed(sequence, input, output, model, FALSE, <<"u">>, MaxSequenceLength,
                gpu, verbose)
    \/ \E url \in {<<"u">>, <<"w">>}, overwrite \in BOOLEAN, gpu \in BOOLEAN, verbose \in BOOLEAN :
         _download(ModelPath, url, MaxSequenceLength, overwrite, gpu, verbose)

SpecCli == InitCli /\ [][NextCli]_vars

(***************************************************************************)
(* SpecFeatures: embedding through handles of every max sequence length,   *)
(* constructed and reloaded, inside and outside a scoped session.          *)
(***************************************************************************)
SequenceLengths == 1..MaxSequenceLength

NextFeatures ==
    \/ \E h \in Slots, n \in SequenceLengths : Construct(h, <<"u">>, n)
    \/ \E h \in Slots : Load(h, ModelPath)
    \/ \E h \in Slots : Enter(h)
    \/ \E h \in Slots : Exit(h)
    \/ \E h \in Slots, x \in EmbedInputs, per_token \in BOOLEAN : Embed(h, x, per_token)
    \/ \E h \in Slots : Save(h, ModelPath, TRUE)
    \/ \E h \in Slots : Discard(h)

SpecFeatures == Init /\ [][NextFeatures]_vars

(***************************************************************************)
(* The claims.                                                             *)
(***************************************************************************)
\* The file system with what is at p taken out: what lies outside p.
Without(root, p) == SetNode(root, p, Missing)

IsCli(l) == l.op \in {"_embed", "_download"}

\* C1: save(path, overwrite=False) on a path that exists raises ValueError and
\* what is at and under the path is what it was; the download command in
\* safe mode ends with the same error and leaves the path as it was.
C1_SafeSaveLeavesPath ==
    [][ /\ (last'.op = "save" /\ ~last'.flag /\ exists(fs, last'.arg))
           => /\ last'.error = "ValueError"
              /\ LStat(fs', last'.arg) = LStat(fs, last'.arg)
              /\ Stat(fs', last'.arg) = Stat(fs, last'.arg)
        /\ (last'.op = "_download" /\ ~last'.overwrite /\ exists(fs, last'.path))
           => /\ last'.error \in {"ValueError", "HubError"}
              /\ last'.status = 1
              /\ LStat(fs', last'.path) = LStat(fs, last'.path)
              /\ Stat(fs', last'.path) = Stat(fs, last'.path) ]_vars

\* A save without overwrite was refused on a directory that has entries.
C1_Witness ==
    /\ last.op = "save" /\ ~last.flag /\ last.error = "ValueError"
    /\ is_dir(fs, last.arg) /\ iterdir(fs, last.arg) # {}

SideFile(root, path) == Stat(root, path \o <<"assets", _SOURCE_MODEL_ASSET_FILE>>)

\* C2: every save that is not refused succeeds and writes a side file that
\* records the identifier the handle originates from, for a handle made by
\* Bert(...) and for one returned by load (whose side file then reads as the
\* side file it was loaded from).
C2_SaveRecordsSource ==
    [][ (last'.op = "save" /\ last'.error # "ValueError" /\ origin[last'.h].known)
        => /\ last'.error = ""
           /\ IsFileOf(SideFile(fs', last'.arg), "text")
           /\ SideFile(fs', last'.arg).data.text = origin[last'.h].line ]_vars

\* embed through a handle, outside or inside a scoped session.
EmbedThrough(hd, sequences, per_token, scoped) ==
    IF scoped
    THEN LET e == __enter__({}, 0, hd)
         IN  embed(e.sessions, 0, e.handle, sequences, per_token).value
    ELSE embed({}, 0, hd, sequences, per_token).value

\* C3: an embed through a handle that load returned gives what the handle
\* whose save wrote the bundle gives for the same input, outside and inside
\* a scoped session.
C3_RoundTrip ==
    (last.op = "embed" /\ origin[last.h].known /\ origin[last.h].loaded)
    => /\ last.error = ""
       /\ \A scoped \in BOOLEAN :
            last.value = EmbedThrough(origin[last.h].handle, last.arg, last.flag, scoped)

\* C4: when the body of a command completes normally, the environment is
\* what it was before the command: each of the two variables unset if it
\* was unset, and otherwise set to the value it had, the empty string too.
C4_EnvironRestored ==
    [][ (IsCli(last') /\ last'.error = "") => environ' = environ ]_vars

\* The body of an embed or download command raised.
BodyRaised(l) ==
    \/ l.op = "_embed" /\ l.stage = "body" /\ l.error # ""
    \/ l.op = "_download" /\ l.error # ""

\* C5: when the body of a command raises, the environment is what it was
\* before the command once the error has left it.
C5_EnvironRestoredOnError ==
    [][ BodyRaised(last') => environ' = environ ]_vars

\* C6: the result for a collection has one entry per string, in order, and
\* entry i is the result for string i alone; the result for a string alone
\* is the result for the collection of that one string without its first
\* dimension.
C6_RowsAreSingles ==
    (last.op = "embed")
    => LET hd == handles[last.h]
           x == last.arg
       IN  /\ last.error = ""
           /\ x.type = "list"
              => /\ Head(last.value.shape) = Len(x.value)
                 /\ \A i \in 1..Len(x.value) :
                      Row(last.value, i)
                        = embed(sessions, last.h, hd, Str(x.value[i]), last.flag).value
           /\ x.type = "str"
              => LET one == embed(sessions, last.h, hd, List(<<x.value>>), last.flag).value
                 IN  /\ Head(one.shape) = 1
                     /\ last.value = Array(Tail(one.shape), one.data)
                     /\ last.value = Row(one, 1)

\* A collection of two different strings was embedded per token through a
\* handle that load returned.
C6_Witness ==
    /\ last.op = "embed" /\ last.error = "" /\ last.flag
    /\ last.arg = List(<<<<"b", "a">>, <<"a">>>>)
    /\ origin[last.h].loaded

\* C7: embed inside a scoped session gives what embed outside one gives,
\* for the same handle and input, at every call.
C7_ScopedEqualsAdHoc ==
    (last.op = "embed")
    => LET hd == handles[last.h]
           entered == __enter__(sessions, last.h, hd)
       IN  /\ last.error = ""
           /\ last.value = embed(sessions, last.h, [hd EXCEPT !.session = 0],
                                 last.arg, last.flag).value
           /\ last.value = embed(entered.sessions, last.h, entered.handle,
                                 last.arg, last.flag).value

\* An embed ran inside a scoped session.
C7_Witness ==
    /\ last.op = "embed" /\ last.error = ""
    /\ handles[last.h].session # 0
    /\ last.arg = Str(<<"a", "b">>)

ExactlyOne(l) == l.sequence.given # l.input.given

\* C8 as stated: the embed command reaches the loading of a model exactly
\* when one of the two options is given, and otherwise prints a message and
\* ends with status 1.
C8_LoadsIffExactlyOne ==
    (last.op = "_embed")
    => /\ (last.stage = "body") <=> ExactlyOne(last)
       /\ ~ExactlyOne(last) => (last.printed # "" /\ last.status = 1)

\* C8 amended: the embed command reaches the loading of a model exactly when
\* one of the two options is given and, if it is the input file, the file
\* can be read; with neither or both it prints a message, ends with status 1
\* and changes nothing.
C8_LoadsIffExactlyOneReadable ==
    [][ (last'.op = "_embed")
        => /\ (last'.stage = "body")
              <=> /\ ExactlyOne(last')
                  /\ last'.input.given => IsFileOf(Stat(fs, last'.input.value), "text")
           /\ ~ExactlyOne(last')
              => /\ last'.printed # "" /\ last'.status = 1 /\ last'.stage = "check"
                 /\ fs' = fs /\ environ' = environ ]_vars

\* The embed command read its sequences from the input file and embedded them.
C8_Witness ==
    /\ last.op = "_embed" /\ last.stage = "body" /\ last.error = ""
    /\ last.input.given /\ ~last.sequence.given

\* C9: save(path, overwrite=True) on a path that exists deletes nothing
\* outside the path, and when it succeeds the path holds the new bundle with
\* the side file in its assets directory and nothing of what was there.
C9_OverwriteReplaces ==
    [][ (last'.op = "save" /\ last'.flag /\ exists(fs, last'.arg))
        => /\ Without(fs', last'.arg) = Without(fs, last'.arg)
           /\ last'.error = ""
              => LET new == LStat(fs', last'.arg)
                 IN  /\ new.kind = "dir"
                     /\ DOMAIN new.entries = {"saved_model.pb", "variables", "assets"}
                     /\ DOMAIN new.entries["assets"].entries
                          = {"vocab.txt", _SOURCE_MODEL_ASSET_FILE}
                     /\ DOMAIN new.entries["variables"].entries = {"variables.data"}
                     /\ SideFile(fs', last'.arg).data.text
                          = FormatLine(handles[last'.h].source_model) ]_vars

\* C10: between operations a handle owns one open session, the one it
\* refers to, when its most recent __enter__ / __exit__ was an __enter__,
\* and none, with no reference, otherwise; no session is owned by no handle.
C10_SessionLifecycle ==
    /\ \A s \in sessions : s.owner \in Slots /\ IsBert(handles[s.owner])
    /\ \A h \in Slots :
         LET owned == {s \in sessions : s.owner = h}
         IN  IF IsBert(handles[h]) /\ scope[h] = "entered"
             THEN /\ handles[h].session # 0
                  /\ Cardinality(owned) = 1
                  /\ \A s \in owned : s.id = handles[h].session
             ELSE /\ owned = {}
                  /\ IsBert(handles[h]) => handles[h].session = 0

\* A handle was entered while its scoped session was already active.
C10_Witness ==
    /\ last.op = "__enter__" /\ last.flag
    /\ scope[last.h] = "entered" /\ handles[last.h].session # 0

\* The three rows fed for one string: the token ids, the mask and the
\* segment ids are each n long; the ids are [CLS], the first tokens of the
\* string that fit, [SEP], then zeros; the mask is 1 up to [SEP] and 0 on
\* the zeros; the segment ids are 0.
RowsAsStated(ids, mask, segs, tokens, n) ==
    LET kept == IF Len(tokens) > n - 2 THEN n - 2 ELSE Len(tokens)
    IN  /\ Len(ids) = n /\ Len(mask) = n /\ Len(segs) = n
        /\ ids[1] = CLS /\ ids[kept + 2] = SEP
        /\ \A i \in 1..kept : ids[i + 1] = tokens[i]
        /\ \A i \in 1..n :
             /\ (i > kept + 2) => (ids[i] = 0)
             /\ mask[i] = (IF i <= kept + 2 THEN 1 ELSE 0)
             /\ segs[i] = 0

\* What embed fed is as stated, one row per string in the order given.
FedAsStated(l, hd) ==
    LET seqs == IF l.arg.type = "str" THEN <<l.arg.value>> ELSE l.arg.value
    IN  /\ l.error = ""
        /\ DOMAIN l.feed = {hd.input_ids, hd.input_mask, hd.segment_ids}
        /\ \A t \in DOMAIN l.feed : Len(l.feed[t]) = Len(seqs)
        /\ \A i \in 1..Len(seqs) :
             RowsAsStated(l.feed[hd.input_ids][i], l.feed[hd.input_mask][i],
                          l.feed[hd.segment_ids][i],
                          Tokenize(hd.tokenizer, seqs[i]),
                          hd.graph.max_sequence_length)

=============================================================================
